---- MODULE Spec2Model ----
(***************************************************************************)
(* A model of the SBA/GL record linkage repository:                        *)
(*   src/src/app.py            create_comparison_df (hybrid projection)    *)
(*   src/src/record_linker.py  SBAGLLinker (settings, training, matching)  *)
(* Data frames are modelled column-wise, as pandas keeps them: an ordered  *)
(* list of column names, a row count, and one series of cells per column.  *)
(***************************************************************************)
EXTENDS Integers, Sequences, FiniteSets, TLC

VARIABLES
    sba_df,     \* app.py: the SBA input frame of create_comparison_df
    gl_df,      \* app.py: the GL input frame of create_comparison_df
    proj,       \* app.py: position and outcome of the create_comparison_df call
    lk,         \* record_linker.py: the SBAGLLinker object and the splink Linker it owns
    env,        \* what splink derives from the two frames: blocked pairs and scores
    calls,      \* record_linker.py: the train_model / find_matches calls made so far
    blk,        \* blocking: the projected frames, the key order and the pairs emitted
    cmp,        \* comparison: the pair of cell values and the level returned
    sc          \* scoring: two SBAGLLinker objects over the same trained model

vars == <<sba_df, gl_df, proj, lk, env, calls, blk, cmp, sc>>

---------------------------------------------------------------------------
(* Bounds of the model *)

\* rows per input frame of the projector
MaxRows == 2

\* train_model / find_matches calls made on one SBAGLLinker
MaxCalls == 3

\* length of the strings handed to the comparison ladder
MaxStrLen == 4

\* rows of the SBA frame handed to the candidate generator (the GL frame has
\* one fewer at most)
MaxBlockRows == 2

---------------------------------------------------------------------------
(* Generic helpers *)

NULL == "<null>"

Range(s) == { s[i] : i \in 1..Len(s) }

\* str.startswith
StartsWith(s, p) == Len(s) >= Len(p) /\ SubSeq(s, 1, Len(p)) = p

Min(a, b) == IF a <= b THEN a ELSE b

\* s[:n]
Take(s, n) == SubSeq(s, 1, Min(n, Len(s)))

\* the sub-sequence of s at the positions in mask, in order
RECURSIVE Pick(_, _, _)
Pick(s, mask, i) ==
    IF i > Len(s) THEN <<>>
    ELSE (IF i \in mask THEN <<s[i]>> ELSE <<>>) \o Pick(s, mask, i + 1)

---------------------------------------------------------------------------
(* pandas frames *)

\* pd.DataFrame: ordered column names, row count, one series per column
HasColumn(df, c) == c \in Range(df.columns)

\* df[name] = series : replaces an existing column, appends a new one
SetItem(df, name, series) ==
    [ columns |-> IF HasColumn(df, name) THEN df.columns ELSE Append(df.columns, name),
      nrows   |-> df.nrows,
      cell    |-> [ c \in Range(df.columns) \cup {name} |->
                      IF c = name THEN series ELSE df.cell[c] ] ]

\* pd.DataFrame({"unique_id": series})
FrameOfUniqueId(series) ==
    [ columns |-> <<"unique_id">>,
      nrows   |-> Len(series),
      cell    |-> [ c \in {"unique_id"} |-> series ] ]

NoFrame == [ columns |-> <<>>, nrows |-> 0, cell |-> <<>> ]

---------------------------------------------------------------------------
(* app.py: create_comparison_df *)

sba_fields == <<"jobid", "clntname", "clntkey", "claccountid">>

gl_desc_fields(gl) == SelectSeq(gl.columns, LAMBDA col : StartsWith(col, "desc"))

\* f"{sba_field}_{gl_desc}"
HybridName(sba_field, gl_desc) == sba_field \o "_" \o gl_desc

\* the (sba_field, gl_desc) pairs in the order the nested loops visit them
RECURSIVE LoopPairs(_, _, _)
LoopPairs(descs, i, j) ==
    IF i > Len(sba_fields) THEN <<>>
    ELSE IF j > Len(descs) THEN LoopPairs(descs, i + 1, 1)
    ELSE <<[sba_field |-> sba_fields[i], gl_desc |-> descs[j]]>> \o LoopPairs(descs, i, j + 1)

\* a faulty loop body: the SBA column always takes the first identity field
HybridStepFirstField(st, p) ==
    IF st.raised # "none" THEN st
    ELSE IF ~HasColumn(st.sba_df, p.sba_field)
         THEN [st EXCEPT !.raised = "KeyError", !.key = p.sba_field]
    ELSE LET name == HybridName(p.sba_field, p.gl_desc) IN
         [st EXCEPT
            !.sba_comp_df = SetItem(st.sba_comp_df, name, st.sba_df.cell[sba_fields[1]]),
            !.gl_comp_df  = SetItem(st.gl_comp_df, name, st.gl_df.cell[p.gl_desc])]

\* One iteration of the loop body, lines 118-119.  st holds the four frames
\* the function can reach and the exception raised so far.
HybridStep(st, p) ==
    IF st.raised # "none" THEN st
    ELSE IF ~HasColumn(st.sba_df, p.sba_field)
         THEN [st EXCEPT !.raised = "KeyError", !.key = p.sba_field]
    ELSE LET name == HybridName(p.sba_field, p.gl_desc) IN
         [st EXCEPT
            !.sba_comp_df = SetItem(st.sba_comp_df, name, st.sba_df.cell[p.sba_field]),
            !.gl_comp_df  = SetItem(st.gl_comp_df, name, st.gl_df.cell[p.gl_desc])]

RECURSIVE HybridLoop(_, _, _)
HybridLoop(st, pairs, k) ==
    IF k > Len(pairs) THEN st
    ELSE HybridLoop(HybridStep(st, pairs[k]), pairs, k + 1)

\* a faulty start: both frames built from the SBA unique_id
InitCompBothFromSba(st) ==
    IF ~HasColumn(st.sba_df, "unique_id")
    THEN [st EXCEPT !.raised = "KeyError", !.key = "unique_id"]
    ELSE IF ~HasColumn(st.gl_df, "unique_id")
    THEN [st EXCEPT !.raised = "KeyError", !.key = "unique_id"]
    ELSE [st EXCEPT
            !.sba_comp_df = FrameOfUniqueId(st.sba_df.cell["unique_id"]),
            !.gl_comp_df  = FrameOfUniqueId(st.sba_df.cell["unique_id"])]

\* a faulty start: a GL frame without unique_id is numbered afresh
InitCompSkippingGl(st) ==
    IF ~HasColumn(st.sba_df, "unique_id")
    THEN [st EXCEPT !.raised = "KeyError", !.key = "unique_id"]
    ELSE [st EXCEPT
            !.sba_comp_df = FrameOfUniqueId(st.sba_df.cell["unique_id"]),
            !.gl_comp_df  = IF HasColumn(st.gl_df, "unique_id")
                            THEN FrameOfUniqueId(st.gl_df.cell["unique_id"])
                            ELSE FrameOfUniqueId([r \in 1..st.gl_df.nrows |-> r])]

\* lines 111-113: the two frames that carry only unique_id
InitComp(st) ==
    IF ~HasColumn(st.sba_df, "unique_id")
    THEN [st EXCEPT !.raised = "KeyError", !.key = "unique_id"]
    ELSE IF ~HasColumn(st.gl_df, "unique_id")
    THEN [st EXCEPT !.raised = "KeyError", !.key = "unique_id"]
    ELSE [st EXCEPT
            !.sba_comp_df = FrameOfUniqueId(st.sba_df.cell["unique_id"]),
            !.gl_comp_df  = FrameOfUniqueId(st.gl_df.cell["unique_id"])]

\* the whole function; an exception discards the local frames
create_comparison_df(sba, gl) ==
    LET st0 == [ raised |-> "none", key |-> "", sba_df |-> sba, gl_df |-> gl,
                 sba_comp_df |-> NoFrame, gl_comp_df |-> NoFrame ]
        st1 == HybridLoop(InitComp(st0), LoopPairs(gl_desc_fields(gl), 1, 1), 1)
    IN  IF st1.raised # "none"
        THEN [st1 EXCEPT !.sba_comp_df = NoFrame, !.gl_comp_df = NoFrame]
        ELSE st1

---------------------------------------------------------------------------
(* The projector's inputs *)

SbaUniverse == <<"unique_id", "jobid", "clntname", "clntkey", "claccountid", "amount">>
GlUniverse  == <<"unique_id", "desc", "desc1", "adesc", "de">>

\* import_csv numbers the rows 1..n; other callers may number them otherwise
UidBases == {1, 101}

\* an input frame over the columns of universe at the positions in mask: the
\* unique_id column numbers the rows from base, every other cell carries a
\* value that is distinct for each (frame, column, row)
InputFrame(universe, tag, mask, n, base) ==
    [ columns |-> Pick(universe, mask, 1),
      nrows   |-> n,
      cell    |-> [ c \in { universe[i] : i \in mask } |->
                      [ r \in 1..n |->
                          IF c = "unique_id" THEN base + r - 1
                          ELSE tag + 10 * (CHOOSE i \in mask : universe[i] = c) + r ] ] ]

InitProj ==
    /\ \E mask \in SUBSET (1..Len(SbaUniverse)), n \in 0..MaxRows, base \in UidBases :
          sba_df = InputFrame(SbaUniverse, 1000, mask, n, base)
    /\ \E mask \in SUBSET (1..Len(GlUniverse)), n \in 0..MaxRows :
          gl_df = InputFrame(GlUniverse, 2000, mask, n, 1)
    /\ proj = [ pc |-> "start", sba_in |-> sba_df, gl_in |-> gl_df ]

\* the call create_comparison_df(sba_df, gl_df)
CreateComparisonDf ==
    /\ proj.pc = "start"
    /\ LET st == create_comparison_df(sba_df, gl_df) IN
          /\ sba_df' = st.sba_df
          /\ gl_df' = st.gl_df
          /\ proj' = [ pc |-> "done", sba_in |-> proj.sba_in, gl_in |-> proj.gl_in,
                       raised |-> st.raised, key |-> st.key,
                       sba_comp_df |-> st.sba_comp_df, gl_comp_df |-> st.gl_comp_df ]

---------------------------------------------------------------------------
(* record_linker.py: SBAGLLinker.__init__, _get_hybrid_columns, _create_settings *)

\* the hybrid column names of the model, in the order sorted() gives them
HybridUniverse == <<"claccountid_desc", "clntkey_desc", "clntname_desc", "jobid_desc">>

\* sorted(list(S)) for S within HybridUniverse
SortedList(S) == Pick(HybridUniverse, { i \in 1..Len(HybridUniverse) : HybridUniverse[i] \in S }, 1)

\* a faulty ladder: the two jaro_winkler levels in the wrong order
comparison_levelsLowFirst ==
    << [kind |-> "exact_match",  threshold |-> 0],
       [kind |-> "jaro_winkler", threshold |-> 80],
       [kind |-> "jaro_winkler", threshold |-> 90],
       [kind |-> "levenshtein",  threshold |-> 3] >>

\* the ladder handed to every comparison, lines 70-75 (thresholds in hundredths
\* for jaro_winkler, in edits for levenshtein)
comparison_levels ==
    << [kind |-> "exact_match",  threshold |-> 0],
       [kind |-> "jaro_winkler", threshold |-> 90],
       [kind |-> "jaro_winkler", threshold |-> 80],
       [kind |-> "levenshtein",  threshold |-> 3] >>

NoSettings ==
    [ link_type |-> "", blocking_rules |-> <<>>, comparisons |-> <<>>,
      deterministic_rules |-> <<>> ]

\* self.linker = None
NoneLinker == [ is_none |-> TRUE, settings |-> NoSettings, params |-> <<>> ]

_get_hybrid_columns(sba_columns, gl_columns) ==
    SortedList((sba_columns \cap gl_columns) \ {"unique_id"})

\* SBAGLLinker(sba_df, gl_df, threshold); a frame is used through its columns only
SBAGLLinker(sba_columns, gl_columns, threshold) ==
    [ sba_df         |-> sba_columns,
      gl_df          |-> gl_columns,
      threshold      |-> threshold,
      hybrid_columns |-> _get_hybrid_columns(sba_columns, gl_columns),
      linker         |-> NoneLinker ]

\* faulty blocking rules: one per hybrid column
blocking_rulesAllColumns(hybrid_columns) == hybrid_columns

\* block_on(col) for col in self.hybrid_columns[:2]
blocking_rules(hybrid_columns) == Take(hybrid_columns, 2)

\* for col in self.hybrid_columns[:3], the columns train_model runs EM on
em_columns(hybrid_columns) == Take(hybrid_columns, 3)

\* faulty settings: records are also paired within one frame
_create_settingsDedupe(self) ==
    [ link_type           |-> "link_and_dedupe",
      blocking_rules      |-> blocking_rules(self.hybrid_columns),
      comparisons         |-> [ i \in 1..Len(self.hybrid_columns) |->
                                  [ col |-> self.hybrid_columns[i],
                                    comparison_levels |-> comparison_levels ] ],
      deterministic_rules |-> Take(self.hybrid_columns, 3) ]

\* lines 53-88
_create_settings(self) ==
    [ link_type           |-> "link_only",
      blocking_rules      |-> blocking_rules(self.hybrid_columns),
      comparisons         |-> [ i \in 1..Len(self.hybrid_columns) |->
                                  [ col |-> self.hybrid_columns[i],
                                    comparison_levels |-> comparison_levels ] ],
      deterministic_rules |-> Take(self.hybrid_columns, 3) ]

---------------------------------------------------------------------------
(* The splink calls of train_model and find_matches, as the specification  *)
(* describes the engine behind them.  e is what the engine derives from    *)
(* the two frames: e.cand[col], the pairs that agree on col, and           *)
(* e.prob[pair], the match probability of a pair in hundredths.            *)

\* Linker([sba_df, gl_df], settings, ...)
NewLinker(settings) == [ is_none |-> FALSE, settings |-> settings, params |-> <<>> ]

\* an estimation step that succeeded leaves its trace in the parameters
Estimated(linker, step, col) == [linker EXCEPT !.params = Append(@, <<step, col>>)]

\* estimate_parameters_using_expectation_maximisation(block_on(col))
estimate_parameters_using_expectation_maximisation(linker, col, e) ==
    IF e.cand[col] = {}
    THEN [ raised |-> "TrainingError", linker |-> linker ]
    ELSE [ raised |-> "none", linker |-> Estimated(linker, "em", col) ]

\* the blocking rule a pair is credited to: the first rule that yields it
MatchKey(rules, pair, e) ==
    rules[CHOOSE i \in 1..Len(rules) :
            /\ pair \in e.cand[rules[i]]
            /\ \A j \in 1..(i - 1) : pair \notin e.cand[rules[j]]]

\* linker.inference.predict(threshold_match_probability=t).as_pandas_dataframe()
predict(linker, t, e) ==
    LET rules == linker.settings.blocking_rules
        union == UNION { e.cand[rules[i]] : i \in 1..Len(rules) }
    IN  { [ pair |-> p, match_key |-> MatchKey(rules, p, e), match_probability |-> e.prob[p] ] :
            p \in { q \in union : e.prob[q] >= t } }

---------------------------------------------------------------------------
(* record_linker.py: train_model and find_matches *)

\* the splink calls of train_model that can raise whatever the data: the
\* Linker constructor, completeness_chart, the two estimate_* calls
Faults == { "none", "Linker", "completeness_chart",
            "estimate_probability_two_random_records_match",
            "estimate_u_using_random_sampling" }

\* a faulty loop: a failed pass is remembered and the later passes still run
RECURSIVE EMLoopKeepGoing(_, _, _, _, _)
EMLoopKeepGoing(self, e, cols, k, raised) ==
    IF k > Len(cols) THEN [ self |-> self, raised |-> raised ]
    ELSE LET r == estimate_parameters_using_expectation_maximisation(self.linker, cols[k], e)
         IN  EMLoopKeepGoing([self EXCEPT !.linker = r.linker], e, cols, k + 1,
                             IF raised = "none" THEN r.raised ELSE raised)

\* lines 130-134: one EM pass per column; an exception leaves the loop
RECURSIVE EMLoop(_, _, _, _, _)
EMLoop(self, e, cols, k, raised) ==
    IF k > Len(cols) THEN [ self |-> self, raised |-> "none" ]
    ELSE LET r == estimate_parameters_using_expectation_maximisation(self.linker, cols[k], e)
         IN  IF r.raised # "none"
             THEN [ self |-> [self EXCEPT !.linker = r.linker], raised |-> r.raised ]
             ELSE EMLoop([self EXCEPT !.linker = r.linker], e, cols, k + 1, raised)

\* lines 98-140; the except clause logs and re-raises
train_model(self, e, fault) ==
    IF fault = "Linker" THEN [ self |-> self, raised |-> "Exception" ]
    ELSE
    LET s1 == [self EXCEPT !.linker = NewLinker(_create_settings(self))]
        s2 == [s1 EXCEPT !.linker = Estimated(@, "prior", "")]
        s3 == [s2 EXCEPT !.linker = Estimated(@, "u", "")]
    IN  IF fault = "completeness_chart" THEN [ self |-> s1, raised |-> "Exception" ]
        ELSE IF fault = "estimate_probability_two_random_records_match"
        THEN [ self |-> s1, raised |-> "Exception" ]
        ELSE IF fault = "estimate_u_using_random_sampling"
        THEN [ self |-> s2, raised |-> "Exception" ]
        ELSE EMLoop(s3, e, em_columns(self.hybrid_columns), 1, "none")

NoRows == {}

\* a faulty find_matches: the default threshold instead of self.threshold
find_matchesFixedThreshold(self, e, fault) ==
    IF self.linker.is_none
    THEN [ raised |-> "ValueError", returned |-> FALSE, rows |-> NoRows ]
    ELSE IF fault # "none"
    THEN [ raised |-> "Exception", returned |-> FALSE, rows |-> NoRows ]
    ELSE [ raised |-> "none", returned |-> TRUE, rows |-> predict(self.linker, 90, e) ]

\* lines 154-174; predict itself may raise (fault) or return
find_matches(self, e, fault) ==
    IF self.linker.is_none
    THEN [ raised |-> "ValueError", returned |-> FALSE, rows |-> NoRows ]
    ELSE IF fault # "none"
    THEN [ raised |-> "Exception", returned |-> FALSE, rows |-> NoRows ]
    ELSE [ raised |-> "none", returned |-> TRUE,
           rows |-> predict(self.linker, self.threshold, e) ]

---------------------------------------------------------------------------
(* One SBAGLLinker and the calls made on it *)

\* match thresholds a caller may pass, in hundredths; 90 is the default
Thresholds == { -50, 0, 90, 100, 150 }

\* the candidate pairs (SBA unique_id, GL unique_id) of the frames
PairUniverse == { <<1, 1>> }

\* match probabilities in hundredths
Probabilities == { 20, 95 }

NoCall == [ op |-> "none", raised |-> "none", returned |-> FALSE, rows |-> NoRows ]

InitLinker ==
    /\ \E gl_columns \in SUBSET Range(HybridUniverse), threshold \in Thresholds :
          lk = SBAGLLinker(Range(HybridUniverse) \cup {"unique_id", "jobid_extra"},
                           gl_columns \cup {"unique_id"}, threshold)
    /\ \E cand \in [Range(lk.hybrid_columns) -> SUBSET PairUniverse],
          prob \in [PairUniverse -> Probabilities] :
          env = [ cand |-> cand, prob |-> prob ]
    /\ calls = [ n |-> 0, trained |-> FALSE, complete |-> FALSE, last |-> NoCall ]

\* linker.train_model()
TrainModel ==
    /\ calls.n < MaxCalls
    /\ \E fault \in Faults :
          LET r == train_model(lk, env, fault) IN
             /\ lk' = r.self
             /\ calls' = [ n        |-> calls.n + 1,
                           trained  |-> calls.trained \/ r.raised = "none",
                           complete |-> r.raised = "none",
                           last     |-> [ op |-> "train_model", raised |-> r.raised,
                                          returned |-> r.raised = "none",
                                          rows |-> NoRows ] ]
    /\ UNCHANGED env

\* linker.find_matches()
FindMatches ==
    /\ calls.n < MaxCalls
    /\ \E fault \in { "none", "predict" } :
          LET r == find_matches(lk, env, fault) IN
             calls' = [ calls EXCEPT !.n = @ + 1,
                                     !.last = [ op |-> "find_matches", raised |-> r.raised,
                                                returned |-> r.returned, rows |-> r.rows ] ]
    /\ UNCHANGED <<lk, env>>

---------------------------------------------------------------------------
(* Candidate generation behind blocking_rules_to_generate_predictions.     *)
(* The repository fixes the rules (block_on of the first two hybrid        *)
(* columns) and the link type; the generator is the engine's, as the       *)
(* specification describes it: one equi-join per rule, rule by rule, a     *)
(* pair being emitted by the first rule that yields it.                    *)

\* a record of a projected frame, tagged with the frame it comes from
Tagged(source, rows) == [ i \in 1..Len(rows) |-> [ source |-> source, row |-> rows[i] ] ]

\* l.col = r.col in SQL: never true when either side is null
Agree(l, r, col) == l.row[col] # NULL /\ r.row[col] # NULL /\ l.row[col] = r.row[col]

\* the pairs the link type admits, in scan order: link_only pairs an SBA
\* record with a GL record, link_and_dedupe pairs any two records
AdmittedPairs(sba, gl, link_type) ==
    LET recs == Tagged("sba", sba) \o Tagged("gl", gl)
        ok(i, j) == IF link_type = "link_only"
                    THEN recs[i].source = "sba" /\ recs[j].source = "gl"
                    ELSE i < j
        idx == [ k \in 1..(Len(recs) * Len(recs)) |->
                   << ((k - 1) \div Len(recs)) + 1, ((k - 1) % Len(recs)) + 1 >> ]
        kept == SelectSeq(idx, LAMBDA ij : ok(ij[1], ij[2]))
    IN  [ k \in 1..Len(kept) |-> [ l |-> recs[kept[k][1]], r |-> recs[kept[k][2]] ] ]

\* the pairs rule number k emits: those that agree on it and on no earlier rule
EmittedBy(pairs, rules, k) ==
    LET hit(p) == /\ Agree(p.l, p.r, rules[k])
                  /\ \A j \in 1..(k - 1) : ~Agree(p.l, p.r, rules[j])
        sel == SelectSeq(pairs, hit)
    IN  [ i \in 1..Len(sel) |->
            [ l |-> <<sel[i].l.source, sel[i].l.row.unique_id>>,
              r |-> <<sel[i].r.source, sel[i].r.row.unique_id>>,
              match_key |-> rules[k] ] ]

RECURSIVE EmitAll(_, _, _)
EmitAll(pairs, rules, k) ==
    IF k > Len(rules) THEN <<>>
    ELSE EmittedBy(pairs, rules, k) \o EmitAll(pairs, rules, k + 1)

\* the candidate pairs of the two frames under the settings, the rules taken in
\* the given order
GenerateCandidates(sba, gl, settings, rules) ==
    EmitAll(AdmittedPairs(sba, gl, settings.link_type), rules, 1)

\* the frames of the blocking model carry unique_id and two hybrid columns
BlockColumns == { HybridUniverse[1], HybridUniverse[2] }

\* the settings an SBAGLLinker over such frames creates
BlockSettings ==
    _create_settings(SBAGLLinker(BlockColumns \cup {"unique_id"},
                                 BlockColumns \cup {"unique_id"}, 90))

Reverse(s) == [ i \in 1..Len(s) |-> s[Len(s) + 1 - i] ]

\* a frame of n rows numbered 1..n with the given cells
BlockFrame(n, cells) ==
    [ i \in 1..n |-> [ c \in BlockColumns \cup {"unique_id"} |->
                         IF c = "unique_id" THEN i ELSE cells[i][c] ] ]

BlockCells == { f \in [BlockColumns -> {NULL, "a", "b"}] : f[HybridUniverse[2]] # "b" }

InitBlock ==
    \E n \in 0..MaxBlockRows, m \in 0..(MaxBlockRows - 1), reversed \in BOOLEAN :
      \E cs \in [1..n -> BlockCells], cg \in [1..m -> BlockCells] :
        blk = [ pc |-> "start",
                sba |-> BlockFrame(n, cs), gl |-> BlockFrame(m, cg),
                order |-> IF reversed THEN Reverse(BlockSettings.blocking_rules)
                          ELSE BlockSettings.blocking_rules,
                first |-> <<>>, second |-> <<>> ]

\* the candidates of a run, the rules in the order the settings list them
Generate ==
    /\ blk.pc = "start"
    /\ blk' = [blk EXCEPT !.pc = "ran",
                          !.first = GenerateCandidates(blk.sba, blk.gl, BlockSettings,
                                                       BlockSettings.blocking_rules)]

\* the candidates of a second run over the same frames, the rules in blk.order
Regenerate ==
    /\ blk.pc = "ran"
    /\ blk' = [blk EXCEPT !.pc = "reran",
                          !.second = GenerateCandidates(blk.sba, blk.gl, BlockSettings,
                                                        blk.order)]

---------------------------------------------------------------------------
(* The comparison ladder of _create_settings, lines 67-78.  The repository *)
(* fixes the levels, their order and their thresholds; the similarity      *)
(* functions and the evaluation of a ladder are the engine's, modelled as  *)
(* the specification describes them: a null level first, then the listed   *)
(* levels in order, the first satisfied one returned, else "no match".     *)

Max(a, b) == IF a >= b THEN a ELSE b

Char(s, i) == SubSeq(s, i, i)

\* one row of the edit-distance table: cur[j+1] is the distance between the
\* first i characters of a and the first j characters of b
RECURSIVE LevRow(_, _, _, _, _)
LevRow(a, b, i, prev, cur) ==
    LET j == Len(cur) IN
    IF j > Len(b) THEN cur
    ELSE LET subst == prev[j] + (IF Char(a, i) = Char(b, j) THEN 0 ELSE 1)
             best  == Min(Min(prev[j + 1] + 1, cur[j] + 1), subst)
         IN  LevRow(a, b, i, prev, Append(cur, best))

RECURSIVE LevRows(_, _, _, _)
LevRows(a, b, i, prev) ==
    IF i > Len(a) THEN prev[Len(b) + 1]
    ELSE LevRows(a, b, i + 1, LevRow(a, b, i, prev, <<i>>))

\* levenshtein(a, b): insertions, deletions and substitutions
Levenshtein(a, b) == LevRows(a, b, 1, [ j \in 1..(Len(b) + 1) |-> j - 1 ])

\* Jaro matching: each character of a, in order, takes the first free equal
\* character of b within the window; ma and mb are the matched positions
RECURSIVE JaroMatch(_, _, _, _, _, _)
JaroMatch(a, b, w, i, ma, mb) ==
    IF i > Len(a) THEN [ ma |-> ma, mb |-> mb ]
    ELSE LET free == { j \in Max(1, i - w)..Min(Len(b), i + w) :
                         j \notin mb /\ Char(b, j) = Char(a, i) }
         IN  IF free = {} THEN JaroMatch(a, b, w, i + 1, ma, mb)
             ELSE LET j == CHOOSE x \in free : \A y \in free : x <= y
                  IN  JaroMatch(a, b, w, i + 1, ma \cup {i}, mb \cup {j})

\* the positions of S in increasing order
RECURSIVE Ascending(_)
Ascending(S) ==
    IF S = {} THEN <<>>
    ELSE LET x == CHOOSE v \in S : \A y \in S : v <= y IN <<x>> \o Ascending(S \ {x})

\* Jaro similarity as the fraction num / den (0 / 1 when nothing matches)
Jaro(a, b) ==
    LET w  == Max(0, (Max(Len(a), Len(b)) \div 2) - 1)
        mt == JaroMatch(a, b, w, 1, {}, {})
        m  == Cardinality(mt.ma)
        pa == Ascending(mt.ma)
        pb == Ascending(mt.mb)
        t  == Cardinality({ k \in 1..m : Char(a, pa[k]) # Char(b, pb[k]) }) \div 2
    IN  IF m = 0 THEN [ num |-> 0, den |-> 1 ]
        ELSE [ num |-> m * m * Len(b) + m * m * Len(a) + (m - t) * Len(a) * Len(b),
               den |-> 3 * Len(a) * Len(b) * m ]

RECURSIVE CommonPrefix(_, _, _)
CommonPrefix(a, b, k) ==
    IF k < 4 /\ k < Len(a) /\ k < Len(b) /\ Char(a, k + 1) = Char(b, k + 1)
    THEN CommonPrefix(a, b, k + 1) ELSE k

\* jaro_winkler_similarity(a, b) >= hundredths / 100: the Jaro similarity,
\* raised by a tenth of the distance to 1 per common leading character (four
\* at most) when it exceeds 0.7
JaroWinklerAtLeast(a, b, hundredths) ==
    LET jr == Jaro(a, b)
        l  == IF 10 * jr.num > 7 * jr.den THEN CommonPrefix(a, b, 0) ELSE 0
    IN  100 * (jr.num * (10 - l) + l * jr.den) >= hundredths * 10 * jr.den

NullLevel == [ kind |-> "null", threshold |-> 0 ]
ElseLevel == [ kind |-> "else", threshold |-> 0 ]

\* whether a listed level holds of two non-null values
Satisfied(level, l, r) ==
    CASE level.kind = "exact_match"  -> l = r
      [] level.kind = "jaro_winkler" -> JaroWinklerAtLeast(l, r, level.threshold)
      [] level.kind = "levenshtein"  -> Levenshtein(l, r) <= level.threshold
      [] OTHER -> FALSE

\* the level of a pair of values on a comparison
ComparisonLevel(comparison, l, r) ==
    LET levels == comparison.comparison_levels
        sat    == { i \in 1..Len(levels) : Satisfied(levels[i], l, r) }
    IN  IF l = NULL \/ r = NULL THEN NullLevel
        ELSE IF sat = {} THEN ElseLevel
        ELSE levels[CHOOSE i \in sat : \A j \in sat : i <= j]

\* the comparison _create_settings builds for the first hybrid column
FirstComparison == BlockSettings.comparisons[1]

RECURSIVE StringsOfLen(_)
StringsOfLen(n) ==
    IF n = 0 THEN {""}
    ELSE { s \o c : s \in StringsOfLen(n - 1), c \in {"a", "b"} }

\* the cell values compared: null, or a string of at most MaxStrLen characters
CellValues == {NULL} \cup UNION { StringsOfLen(n) : n \in 0..MaxStrLen }

InitCompare ==
    \E l \in CellValues, r \in CellValues :
        cmp = [ pc |-> "start", l |-> l, r |-> r, level |-> NullLevel, swapped |-> NullLevel ]

\* the level of (l, r) and of (r, l) on the first hybrid column
Compare ==
    /\ cmp.pc = "start"
    /\ cmp' = [cmp EXCEPT !.pc = "done",
                          !.level   = ComparisonLevel(FirstComparison, cmp.l, cmp.r),
                          !.swapped = ComparisonLevel(FirstComparison, cmp.r, cmp.l)]

---------------------------------------------------------------------------
(* Two find_matches calls that differ in the threshold only: two           *)
(* SBAGLLinker objects over the same frames, both trained to the same      *)
(* parameters.                                                             *)

ScorePairs == { <<1, 1>>, <<1, 2>>, <<2, 2>> }
ScoreProbabilities == { 0, 50, 100 }
ScoreThresholds == { 0, 50, 90, 100 }

Trained(columns, threshold, e) ==
    train_model(SBAGLLinker(columns, columns, threshold), e, "none").self

InitScore ==
    \E cand \in [BlockColumns -> (SUBSET ScorePairs) \ {{}}],
       prob \in [ScorePairs -> ScoreProbabilities],
       t1 \in ScoreThresholds, t2 \in ScoreThresholds :
        LET e == [ cand |-> cand, prob |-> prob ] IN
        sc = [ e |-> e,
               a |-> Trained(BlockColumns \cup {"unique_id"}, t1, e),
               b |-> Trained(BlockColumns \cup {"unique_id"}, t2, e),
               ra |-> NoCall, rb |-> NoCall ]

CallResult(r) ==
    [ op |-> "find_matches", raised |-> r.raised, returned |-> r.returned, rows |-> r.rows ]

\* a.find_matches()
FindMatchesA ==
    /\ sc.ra.op = "none"
    /\ sc' = [sc EXCEPT !.ra = CallResult(find_matches(sc.a, sc.e, "none"))]

\* b.find_matches()
FindMatchesB ==
    /\ sc.rb.op = "none"
    /\ sc' = [sc EXCEPT !.rb = CallResult(find_matches(sc.b, sc.e, "none"))]

---------------------------------------------------------------------------
(* Specifications: each exercises one part of the repository and holds the *)
(* state of the other parts still.                                         *)

varsProjector == <<sba_df, gl_df, proj>>
varsLinker == <<lk, env, calls>>

IdleProjector == sba_df = NoFrame /\ gl_df = NoFrame /\ proj = [ pc |-> "idle" ]
IdleLinker ==
    /\ lk = SBAGLLinker({}, {}, 90)
    /\ env = [ cand |-> <<>>, prob |-> <<>> ]
    /\ calls = [ n |-> 0, trained |-> FALSE, complete |-> FALSE, last |-> NoCall ]
IdleBlock == blk = [ pc |-> "idle" ]
IdleCompare == cmp = [ pc |-> "idle" ]
IdleScore == sc = [ ra |-> NoCall, rb |-> NoCall ]

\* one SBAGLLinker and the calls made on it
Init == InitLinker /\ IdleProjector /\ IdleBlock /\ IdleCompare /\ IdleScore
Next ==
    \/ TrainModel /\ UNCHANGED <<varsProjector, blk, cmp, sc>>
    \/ FindMatches /\ UNCHANGED <<varsProjector, blk, cmp, sc>>
Spec == Init /\ [][Next]_vars

\* create_comparison_df
InitProjector == InitProj /\ IdleLinker /\ IdleBlock /\ IdleCompare /\ IdleScore
NextProjector == CreateComparisonDf /\ UNCHANGED <<varsLinker, blk, cmp, sc>>
SpecProjector == InitProjector /\ [][NextProjector]_vars

\* candidate generation
InitBlocking == InitBlock /\ IdleProjector /\ IdleLinker /\ IdleCompare /\ IdleScore
NextBlocking ==
    \/ Generate /\ UNCHANGED <<varsProjector, varsLinker, cmp, sc>>
    \/ Regenerate /\ UNCHANGED <<varsProjector, varsLinker, cmp, sc>>
SpecBlocking == InitBlocking /\ [][NextBlocking]_vars

\* the comparison ladder
InitComparison == InitCompare /\ IdleProjector /\ IdleLinker /\ IdleBlock /\ IdleScore
NextComparison == Compare /\ UNCHANGED <<varsProjector, varsLinker, blk, sc>>
SpecComparison == InitComparison /\ [][NextComparison]_vars

\* scoring under two thresholds
InitScorer == InitScore /\ IdleProjector /\ IdleLinker /\ IdleBlock /\ IdleCompare
NextScorer ==
    \/ FindMatchesA /\ UNCHANGED <<varsProjector, varsLinker, blk, cmp>>
    \/ FindMatchesB /\ UNCHANGED <<varsProjector, varsLinker, blk, cmp>>
SpecScorer == InitScorer /\ [][NextScorer]_vars

---------------------------------------------------------------------------
(* Properties of SBAGLLinker, stated for Spec *)

Invoked(op) == calls.last.op = op

\* C1: find_matches raises ValueError and returns nothing whenever no earlier
\* train_model call has completed without raising, also when train_model
\* raised partway, after the Linker was created.
C1_FindMatchesNeedsTrainedModel ==
    (Invoked("find_matches") /\ ~calls.trained)
        => (calls.last.raised = "ValueError" /\ ~calls.last.returned)

InvalidConfiguration ==
    \/ lk.threshold < 0
    \/ lk.threshold > 100
    \/ lk.hybrid_columns = <<>>

\* C5: a threshold outside [0,1] or an empty list of comparison columns is
\* rejected with ConfigurationError: no training step runs, no call made on
\* such a linker returns, and the only error a call raises is that one.
C5_InvalidConfigurationRejected ==
    InvalidConfiguration =>
        /\ lk.linker.params = <<>>
        /\ ~calls.last.returned
        /\ calls.last.raised \in { "none", "ConfigurationError" }

\* the parameters after the two one-off estimates and the EM passes on the
\* first k of cols
ParamsAfter(cols, k) ==
    << <<"prior", "">>, <<"u", "">> >> \o [ j \in 1..k |-> <<"em", cols[j]>> ]

\* C6: an EM pass given an empty candidate set fails with TrainingError and
\* leaves the parameters as they were; train_model runs one pass per column
\* of the first three hybrid columns, and when a pass fails the parameters
\* are those the preceding passes produced and the error reaches the caller.
C6_FailedPassKeepsEarlierParameters ==
    Invoked("train_model") =>
        LET cols  == Take(lk.hybrid_columns, 3)
            empty == { k \in 1..Len(cols) : env.cand[cols[k]] = {} }
        IN  /\ calls.last.raised = "TrainingError" =>
                  /\ empty # {}
                  /\ \E k \in empty :
                        /\ \A j \in empty : k <= j
                        /\ lk.linker.params = ParamsAfter(cols, k - 1)
            /\ calls.last.raised = "none" =>
                  /\ empty = {}
                  /\ lk.linker.params = ParamsAfter(cols, Len(cols))
            /\ calls.last.raised \in { "none", "TrainingError", "Exception" }

C6_Witness ==
    /\ Invoked("train_model")
    /\ calls.last.raised = "TrainingError"
    /\ Len(lk.linker.params) >= 3

\* the columns the EM passes of the linker in force were run on
EmKeys == { lk.linker.params[i][2] : i \in { j \in 1..Len(lk.linker.params) :
                                                 lk.linker.params[j][1] = "em" } }

PredictionKeys == Range(lk.linker.settings.blocking_rules)

\* a run in which train_model completed and find_matches then returned
CompleteRun == calls.complete /\ Invoked("find_matches") /\ calls.last.returned

\* C10 as stated: in a complete run the blocking keys used for EM training
\* are a subset of the blocking rules used to generate predictions.
C10_TrainingKeysWithinPredictionRules ==
    CompleteRun => EmKeys \subseteq PredictionKeys

\* C10 as amended: in a complete run the blocking rules that generate the
\* predictions (the first two hybrid columns) are among the keys EM was
\* trained on (the first three), so every predicted pair comes from a rule a
\* training pass used.
C10_PredictionRulesWithinTrainingKeys ==
    CompleteRun =>
        /\ PredictionKeys = Range(Take(lk.hybrid_columns, 2))
        /\ EmKeys = Range(Take(lk.hybrid_columns, 3))
        /\ PredictionKeys \subseteq EmKeys
        /\ \A row \in calls.last.rows : row.match_key \in EmKeys

C10_Witness ==
    /\ CompleteRun
    /\ Len(lk.hybrid_columns) >= 3
    /\ calls.last.rows # {}
    /\ EmKeys \ PredictionKeys # {}

---------------------------------------------------------------------------
(* Properties of create_comparison_df, stated for SpecProjector *)

Projected == proj.pc = "done"

BothCarryUniqueId ==
    HasColumn(proj.sba_in, "unique_id") /\ HasColumn(proj.gl_in, "unique_id")

\* unique_id plus one column per identity field x description field
HybridColumnSet ==
    {"unique_id"} \cup
    { HybridName(sba_fields[i], d) : i \in 1..Len(sba_fields),
                                     d \in Range(gl_desc_fields(proj.gl_in)) }

SameSchemaAndRowCounts ==
    /\ proj.raised = "none"
    /\ Range(proj.sba_comp_df.columns) = Range(proj.gl_comp_df.columns)
    /\ Range(proj.sba_comp_df.columns) = HybridColumnSet
    /\ Len(proj.sba_comp_df.columns) = Cardinality(HybridColumnSet)
    /\ Len(proj.gl_comp_df.columns) = Cardinality(HybridColumnSet)
    /\ proj.sba_comp_df.nrows = proj.sba_in.nrows
    /\ proj.gl_comp_df.nrows = proj.gl_in.nrows
    /\ \A c \in HybridColumnSet :
          /\ Len(proj.sba_comp_df.cell[c]) = proj.sba_in.nrows
          /\ Len(proj.gl_comp_df.cell[c]) = proj.gl_in.nrows

\* C2 as stated: for every two inputs that both carry unique_id the outputs
\* have identical column sets (unique_id plus the hybrid columns) and the row
\* counts of their inputs.
C2_SameSchemaForAllInputs ==
    (Projected /\ BothCarryUniqueId) => SameSchemaAndRowCounts

IdentityFieldsPresent ==
    \/ gl_desc_fields(proj.gl_in) = <<>>
    \/ \A i \in 1..Len(sba_fields) : HasColumn(proj.sba_in, sba_fields[i])

\* C2 as amended: the same, for inputs that both carry unique_id and whose
\* SBA side carries every identity field whenever the GL side has a
\* description field.
C2_SameSchemaWhenIdentityFieldsPresent ==
    (Projected /\ BothCarryUniqueId /\ IdentityFieldsPresent) => SameSchemaAndRowCounts

C2_Witness ==
    /\ Projected /\ BothCarryUniqueId /\ IdentityFieldsPresent
    /\ proj.sba_in.nrows # proj.gl_in.nrows
    /\ proj.sba_in.nrows > 0 /\ proj.gl_in.nrows > 0
    /\ Cardinality(HybridColumnSet) = 9

\* C3: the SBA column of (i, d) holds the identity field's cells, the GL
\* column of (i, d) the description field's cells; unique_id is carried over
\* unchanged; the inputs are not modified.
C3_ColumnsHoldSourceValues ==
    Projected =>
        /\ sba_df = proj.sba_in
        /\ gl_df = proj.gl_in
        /\ proj.raised = "none" =>
              /\ proj.sba_comp_df.cell["unique_id"] = proj.sba_in.cell["unique_id"]
              /\ proj.gl_comp_df.cell["unique_id"] = proj.gl_in.cell["unique_id"]
              /\ \A i \in 1..Len(sba_fields), d \in Range(gl_desc_fields(proj.gl_in)) :
                    /\ proj.sba_comp_df.cell[HybridName(sba_fields[i], d)]
                          = proj.sba_in.cell[sba_fields[i]]
                    /\ proj.gl_comp_df.cell[HybridName(sba_fields[i], d)]
                          = proj.gl_in.cell[d]

C3_Witness ==
    /\ Projected
    /\ proj.raised = "none"
    /\ Len(gl_desc_fields(proj.gl_in)) = 2
    /\ proj.sba_in.nrows = 2 /\ proj.gl_in.nrows = 1

NoOutput == proj.sba_comp_df = NoFrame /\ proj.gl_comp_df = NoFrame

\* C4 as stated: an input without unique_id makes the projection fail with
\* SchemaError and produce no output.
C4_MissingUniqueIdIsSchemaError ==
    (Projected /\ ~BothCarryUniqueId) => (proj.raised = "SchemaError" /\ NoOutput)

\* C4 as amended: an input without unique_id makes the projection fail with
\* KeyError on unique_id and produce no output.
C4_MissingUniqueIdIsKeyError ==
    (Projected /\ ~BothCarryUniqueId)
        => (proj.raised = "KeyError" /\ proj.key = "unique_id" /\ NoOutput)

C4_Witness ==
    /\ Projected
    /\ HasColumn(proj.sba_in, "unique_id") /\ ~HasColumn(proj.gl_in, "unique_id")
    /\ proj.raised = "KeyError"
    /\ proj.gl_in.nrows > 0

---------------------------------------------------------------------------
(* Property of the scorer, stated for SpecScorer *)

Pairs(rows) == { row.pair : row \in rows }

\* the union of the pairs of the blocking rules of _create_settings
CandidateUnion ==
    UNION { sc.e.cand[c] : c \in Range(Take(sc.a.hybrid_columns, 2)) }

\* what a find_matches call on obj returned: exactly the candidates whose
\* probability is at least obj.threshold
HonoursThreshold(obj, r) ==
    r.op = "find_matches" =>
        /\ r.returned
        /\ \A row \in r.rows :
              /\ row.match_probability = sc.e.prob[row.pair]
              /\ row.match_probability >= obj.threshold
        /\ \A p \in CandidateUnion : sc.e.prob[p] >= obj.threshold => p \in Pairs(r.rows)
        /\ Pairs(r.rows) \subseteq CandidateUnion

BothScored == sc.ra.op = "find_matches" /\ sc.rb.op = "find_matches"

\* C7: for thresholds t1 < t2 in [0,1], the same frames and the same frozen
\* parameters, the pairs returned at t2 are among those returned at t1; every
\* returned pair has probability >= the threshold; no candidate with
\* probability >= the threshold is left out.
C7_ScorerMonotone ==
    /\ HonoursThreshold(sc.a, sc.ra)
    /\ HonoursThreshold(sc.b, sc.rb)
    /\ (BothScored /\ sc.a.threshold < sc.b.threshold)
          => Pairs(sc.rb.rows) \subseteq Pairs(sc.ra.rows)
    /\ (BothScored /\ sc.b.threshold < sc.a.threshold)
          => Pairs(sc.ra.rows) \subseteq Pairs(sc.rb.rows)

C7_Witness ==
    /\ BothScored
    /\ sc.a.threshold < sc.b.threshold
    /\ sc.rb.rows # {}
    /\ Pairs(sc.rb.rows) # Pairs(sc.ra.rows)
    /\ Pairs(sc.ra.rows) # CandidateUnion

---------------------------------------------------------------------------
(* Property of candidate generation, stated for SpecBlocking *)

PairSet(emitted) == { <<emitted[i].l, emitted[i].r>> : i \in 1..Len(emitted) }

EmittedOnce(emitted) ==
    \A i, j \in 1..Len(emitted) :
        (emitted[i].l = emitted[j].l /\ emitted[i].r = emitted[j].r) => i = j

\* both records carry the same non-null value on col
SharedValue(l, r, col) == l[col] # NULL /\ r[col] # NULL /\ l[col] = r[col]

\* the SBA x GL pairs that share a value on at least one of the first two
\* hybrid columns
JustifiedPairs ==
    { << <<"sba", blk.sba[i].unique_id>>, <<"gl", blk.gl[j].unique_id>> >> :
        <<i, j>> \in { ij \in (1..Len(blk.sba)) \X (1..Len(blk.gl)) :
                         \E c \in BlockColumns : SharedValue(blk.sba[ij[1]], blk.gl[ij[2]], c) } }

WellFormed(emitted) ==
    /\ EmittedOnce(emitted)
    /\ \A i \in 1..Len(emitted) :
          /\ emitted[i].l[1] = "sba"
          /\ emitted[i].r[1] = "gl"
          /\ SharedValue(blk.sba[emitted[i].l[2]], blk.gl[emitted[i].r[2]], emitted[i].match_key)
    /\ PairSet(emitted) = JustifiedPairs

\* C8: the set of candidate pairs does not depend on the order of the
\* blocking keys and is the same on a second run; a pair justified by several
\* keys is emitted once; the left record is from the SBA set and the right
\* one from the GL set; a null on a key forms no candidate on that key.
C8_CandidatesOrderIndependent ==
    /\ blk.pc \in { "ran", "reran" } => WellFormed(blk.first)
    /\ blk.pc = "reran" =>
          /\ WellFormed(blk.second)
          /\ PairSet(blk.first) = PairSet(blk.second)
          /\ blk.order = BlockSettings.blocking_rules => blk.first = blk.second

C8_Witness ==
    /\ blk.pc = "reran"
    /\ blk.order # BlockSettings.blocking_rules
    /\ blk.first # blk.second
    /\ Len(blk.first) >= 2
    /\ \E i \in 1..Len(blk.sba), j \in 1..Len(blk.gl) :
          \A c \in BlockColumns : SharedValue(blk.sba[i], blk.gl[j], c)
    /\ \E i \in 1..Len(blk.sba), c \in BlockColumns : blk.sba[i][c] = NULL

---------------------------------------------------------------------------
(* Property of the comparison ladder, stated for SpecComparison *)

\* the level of two values on the ladder null, exact, 0.9, 0.8, 3 edits, else
LadderLevel(l, r) ==
    IF l = NULL \/ r = NULL THEN NullLevel
    ELSE IF l = r THEN [ kind |-> "exact_match", threshold |-> 0 ]
    ELSE IF JaroWinklerAtLeast(l, r, 90) THEN [ kind |-> "jaro_winkler", threshold |-> 90 ]
    ELSE IF JaroWinklerAtLeast(l, r, 80) THEN [ kind |-> "jaro_winkler", threshold |-> 80 ]
    ELSE IF Levenshtein(l, r) <= 3 THEN [ kind |-> "levenshtein", threshold |-> 3 ]
    ELSE ElseLevel

\* C9: every pair of values gets exactly one level: the null level when
\* either side is null, otherwise the first satisfied of exact match,
\* similarity >= 0.9, similarity >= 0.8, edit distance <= 3, else no match;
\* swapping the two sides gives the same level.
C9_FirstSatisfiedLevel ==
    cmp.pc = "done" =>
        /\ cmp.level = LadderLevel(cmp.l, cmp.r)
        /\ cmp.swapped = cmp.level

C9_Witness ==
    /\ cmp.pc = "done"
    /\ cmp.level = [ kind |-> "jaro_winkler", threshold |-> 80 ]
    /\ Levenshtein(cmp.l, cmp.r) <= 3
    /\ Len(cmp.l) < Len(cmp.r)

====
